---- MODULE Spec2Model ----
(***************************************************************************)
(* Model of budget-track-telegram.py: the TelegramBudgetTracker engine     *)
(* (load_data / save_data / get_user_data / add_transaction / set_budget / *)
(* add_savings_goal / get_financial_summary / view_transactions /          *)
(* view_savings_goals) and the Telegram handlers that drive it             *)
(* (button_handler, handle_message, show_summary, show_transactions,       *)
(* show_goals).                                                            *)
(*                                                                         *)
(* Amounts are Python floats in the source; the model uses integers (whole *)
(* currency units), so float rounding is outside the model.                *)
(***************************************************************************)
EXTENDS Integers, Sequences, FiniteSets, TLC

VARIABLES
    running,    \* the bot process is alive (module-level tracker constructed)
    data,       \* tracker.data, the in-memory document
    disk,       \* content of telegram_budget_data.json
    now,        \* datetime.now(), the wall clock
    sessions,   \* context.user_data, per Telegram user
    reply       \* outcome of the last handler / engine call

vars == <<running, data, disk, now, sessions, reply>>

----------------------------------------------------------------------------
(* Bounds *)

\* most transactions recorded in one account
MaxTx == 2
\* most savings goals in one account
MaxGoals == 1

\* Telegram user ids (str(update.effective_user.id))
UserIds == {"u1", "u2"}

\* texts a user may send
Texts == {"abc", "-1", "0", "1"}

\* the categories offered, a subset of self.categories
IncomeCategories == {"Salary"}
ExpenseCategories == {"Food", "Other"}

TransactionTypes == {"income", "expense"}
Periods == {"current_month", "last_month", "all_time"}

\* limits passed to view_transactions (10 is the default)
Limits == {0, 1, 2, 10}

\* the moments at which the wall clock is observed
Instants ==
    { [year |-> 2024, month |-> 12, day |-> 30, sec |-> 43200, usec |-> 0],
      [year |-> 2024, month |-> 12, day |-> 31, sec |-> 0,     usec |-> 0],
      [year |-> 2024, month |-> 12, day |-> 31, sec |-> 43200, usec |-> 5],
      [year |-> 2025, month |-> 1,  day |-> 1,  sec |-> 1,     usec |-> 0],
      [year |-> 2025, month |-> 1,  day |-> 31, sec |-> 86399, usec |-> 0],
      [year |-> 2025, month |-> 2,  day |-> 1,  sec |-> 0,     usec |-> 7] }

\* the first of them: when the process is first started
FirstInstant == [year |-> 2024, month |-> 12, day |-> 30, sec |-> 43200, usec |-> 0]

----------------------------------------------------------------------------
(* datetime *)

IsLeap(y) == (y % 4 = 0 /\ y % 100 # 0) \/ y % 400 = 0

DaysInMonth(y, m) ==
    IF m = 2 THEN (IF IsLeap(y) THEN 29 ELSE 28)
    ELSE IF m \in {4, 6, 9, 11} THEN 30 ELSE 31

\* datetime(y, m, d): midnight
datetime(y, m, d) == [year |-> y, month |-> m, day |-> d, sec |-> 0, usec |-> 0]

\* dt - timedelta(days=1)
MinusOneDay(dt) ==
    IF dt.day > 1 THEN [dt EXCEPT !.day = dt.day - 1]
    ELSE IF dt.month > 1
         THEN [dt EXCEPT !.month = dt.month - 1,
                         !.day = DaysInMonth(dt.year, dt.month - 1)]
         ELSE [dt EXCEPT !.year = dt.year - 1, !.month = 12, !.day = 31]

\* a <= b on datetimes
DtLeq(a, b) ==
    \/ a.year < b.year
    \/ a.year = b.year /\ a.month < b.month
    \/ a.year = b.year /\ a.month = b.month /\ a.day < b.day
    \/ a.year = b.year /\ a.month = b.month /\ a.day = b.day /\ a.sec < b.sec
    \/ a.year = b.year /\ a.month = b.month /\ a.day = b.day /\ a.sec = b.sec
       /\ a.usec <= b.usec

\* dt.strftime("%Y-%m-%d %H:%M:%S"): second precision, microseconds dropped
strftime_datetime(dt) ==
    [year |-> dt.year, month |-> dt.month, day |-> dt.day, sec |-> dt.sec]

\* datetime.strptime(s, "%Y-%m-%d %H:%M:%S")
strptime_datetime(s) ==
    [year |-> s.year, month |-> s.month, day |-> s.day, sec |-> s.sec, usec |-> 0]

\* dt.strftime("%Y-%m-%d")
strftime_date(dt) == [year |-> dt.year, month |-> dt.month, day |-> dt.day]

----------------------------------------------------------------------------
(* float(text) *)

IsNumber(text) == text \in {"-1", "0", "1"}

float(text) ==
    IF text = "-1" THEN -1 ELSE IF text = "0" THEN 0 ELSE 1

Amounts == {float(t) : t \in {x \in Texts : IsNumber(x)}}

----------------------------------------------------------------------------
(* Python dicts that keep insertion order, as sequences of key/value entries *)

EmptyDict == << >>

DictHas(d, k) == \E i \in 1..Len(d) : d[i].key = k

DictIndex(d, k) == CHOOSE i \in 1..Len(d) : d[i].key = k

\* d.get(k, default)
DictGet(d, k, default) == IF DictHas(d, k) THEN d[DictIndex(d, k)].value ELSE default

\* d[k] = v appended as a new entry even when k is already a key
DictSet_AlwaysAppend(d, k, v) == Append(d, [key |-> k, value |-> v])

\* d[k] = v: an existing key keeps its place and gets the new value
DictSet(d, k, v) ==
    IF DictHas(d, k)
    THEN [d EXCEPT ![DictIndex(d, k)] = [key |-> k, value |-> v]]
    ELSE Append(d, [key |-> k, value |-> v])

DictKeys(d) == {d[i].key : i \in 1..Len(d)}

----------------------------------------------------------------------------
(* The document and the file *)

NoUsers == [u \in {} |-> 0]

\* initialize_data: {'users': {}}
initialize_data == [has_users |-> TRUE, users |-> NoUsers]

\* a parsed JSON value that is not a mapping with a 'users' key, such as {}
JsonWithoutUsers == [has_users |-> FALSE, users |-> NoUsers]

\* what the memory of a process that is not running holds
NoData == [has_users |-> FALSE, users |-> NoUsers]

MissingFile == [kind |-> "missing", value |-> NoData]
\* an empty or cut-off file, or any text json.load rejects
UnparseableFile == [kind |-> "unparseable", value |-> NoData]
\* json.dump(d, f, indent=4), written completely
JsonFile(d) == [kind |-> "json", value |-> d]

\* the files the process may find when it is first started
InitialFiles ==
    {MissingFile, UnparseableFile, JsonFile(JsonWithoutUsers), JsonFile(initialize_data)}

\* load_data accepting whatever json.load returns
load_data(f) ==
    IF f.kind = "missing" THEN initialize_data
    ELSE IF f.kind = "unparseable" THEN initialize_data
    ELSE f.value

SaveOutcomes == {"ok", "open_error", "write_error", "crash"}

\* save_data that never touches the file
save_data_NoWrite(d, f, outcome) == f

\* save_data: open(file, 'w') truncates the file, json.dump then writes it.
\*   ok          the document is written completely
\*   open_error  open() raises (permission denied): the file is untouched
\*   write_error the write raises after the truncation (disk full)
\*   crash       the process is killed after the truncation
save_data(d, f, outcome) ==
    IF outcome = "ok" THEN JsonFile(d)
    ELSE IF outcome = "open_error" THEN f
    ELSE UnparseableFile

NewAccount ==
    [transactions |-> << >>, budgets |-> EmptyDict,
     savings_goals |-> << >>, total_savings |-> 0]

KnownUser(d, user_id) == user_id \in DOMAIN d.users

\* get_user_data: the document after the fetch-or-create (d['users'] exists)
get_user_data(d, user_id) ==
    IF KnownUser(d, user_id) THEN d
    ELSE [d EXCEPT !.users =
            [u \in DOMAIN d.users \cup {user_id} |->
                IF u = user_id THEN NewAccount ELSE d.users[u]]]

Account(d, user_id) == get_user_data(d, user_id).users[user_id]

SetAccount(d, user_id, acc) ==
    LET d1 == get_user_data(d, user_id)
    IN  [d1 EXCEPT !.users[user_id] = acc]

\* lines 73-77 with the expense branch adding instead of subtracting
update_savings_ExpenseAdds(total, amount, transaction_type) ==
    IF transaction_type \in {"income", "expense"} THEN total + amount ELSE total

\* lines 73-77
update_savings(total, amount, transaction_type) ==
    IF transaction_type = "income" THEN total + amount
    ELSE IF transaction_type = "expense" THEN total - amount
    ELSE total

\* the id given to a new list element: the same id every time
next_id_Constant(list) == 1

\* len(list) + 1
next_id(list) == Len(list) + 1

\* add_transaction, lines 60-77: the document before save_data
add_transaction(d, user_id, amount, category, transaction_type, description, t) ==
    LET user_data == Account(d, user_id)
        transaction ==
            [id |-> next_id(user_data.transactions),
             date |-> strftime_datetime(t),
             amount |-> amount,
             category |-> category,
             type |-> transaction_type,
             description |-> description]
    IN  SetAccount(d, user_id,
            [user_data EXCEPT
                !.transactions = Append(@, transaction),
                !.total_savings = update_savings(@, amount, transaction_type)])

\* set_budget, lines 84-88: the document before save_data
set_budget(d, user_id, category, amount, t) ==
    LET user_data == Account(d, user_id)
    IN  SetAccount(d, user_id,
            [user_data EXCEPT
                !.budgets = DictSet(@, category,
                                [amount |-> amount, set_date |-> strftime_date(t)])])

\* add_savings_goal, lines 94-103: the document before save_data
add_savings_goal(d, user_id, name, target_amount, target_date, t) ==
    LET user_data == Account(d, user_id)
        goal ==
            [id |-> next_id(user_data.savings_goals),
             name |-> name,
             target_amount |-> target_amount,
             current_amount |-> 0,
             target_date |-> target_date,
             created_date |-> strftime_date(t)]
    IN  SetAccount(d, user_id,
            [user_data EXCEPT !.savings_goals = Append(@, goal)])

----------------------------------------------------------------------------
(* get_financial_summary *)

\* line 114
current_month_end(t) ==
    IF t.month < 12 THEN MinusOneDay(datetime(t.year, t.month + 1, 1))
    ELSE MinusOneDay(datetime(t.year + 1, 1, 1))

\* lines 116-118 without the January rollover of the year
last_month_start_NoRollover(t) ==
    datetime(t.year, IF t.month > 1 THEN t.month - 1 ELSE 12, 1)

\* lines 116-118
last_month_start(t) ==
    LET last_month == IF t.month > 1 THEN t.month - 1 ELSE 12
        year == IF t.month > 1 THEN t.year ELSE t.year - 1
    IN  datetime(year, last_month, 1)

\* line 119
last_month_end(t) == MinusOneDay(datetime(t.year, t.month, 1))

\* lines 112-122
start_date(period, t) ==
    IF period = "current_month" THEN datetime(t.year, t.month, 1)
    ELSE IF period = "last_month" THEN last_month_start(t)
    ELSE datetime(2000, 1, 1)

\* end_date with all_time ending at the start of today
end_date_AllTimeToToday(period, t) ==
    IF period = "current_month" THEN current_month_end(t)
    ELSE IF period = "last_month" THEN last_month_end(t)
    ELSE datetime(t.year, t.month, t.day)

end_date(period, t) ==
    IF period = "current_month" THEN current_month_end(t)
    ELSE IF period = "last_month" THEN last_month_end(t)
    ELSE datetime(2100, 1, 1)

\* the condition of lines 125-128
in_period(tr, period, t) ==
    /\ DtLeq(start_date(period, t), strptime_datetime(tr.date))
    /\ DtLeq(strptime_datetime(tr.date), end_date(period, t))

\* lines 125-128
period_transactions(transactions, period, t) ==
    SelectSeq(transactions, LAMBDA tr : in_period(tr, period, t))

\* sum(t['amount'] for t in seq if t['type'] == type)
RECURSIVE sum_amounts(_, _)
sum_amounts(seq, type) ==
    IF seq = << >> THEN 0
    ELSE (IF Head(seq).type = type THEN Head(seq).amount ELSE 0)
         + sum_amounts(Tail(seq), type)

\* lines 135-139, from transaction i on
RECURSIVE expenses_by_category_from(_, _, _)
expenses_by_category_from(seq, i, acc) ==
    IF i > Len(seq) THEN acc
    ELSE expenses_by_category_from(seq, i + 1,
            IF seq[i].type = "expense"
            THEN DictSet(acc, seq[i].category,
                         DictGet(acc, seq[i].category, 0) + seq[i].amount)
            ELSE acc)

expenses_by_category(seq) == expenses_by_category_from(seq, 1, EmptyDict)

\* lines 142-147, from budget entry i on
RECURSIVE budget_alerts_from(_, _, _, _)
budget_alerts_from(budgets, by_category, i, alerts) ==
    IF i > Len(budgets) THEN alerts
    ELSE LET category == budgets[i].key
             spent == DictGet(by_category, category, 0)
             budget == budgets[i].value.amount
         IN  budget_alerts_from(budgets, by_category, i + 1,
                IF spent > budget
                THEN Append(alerts,
                        [category |-> category, spent |-> spent, budget |-> budget])
                ELSE alerts)

\* get_financial_summary, lines 110-157, on the account get_user_data returned
get_financial_summary(user_data, period, t) ==
    LET pt == period_transactions(user_data.transactions, period, t)
        total_income == sum_amounts(pt, "income")
        total_expenses == sum_amounts(pt, "expense")
        by_category == expenses_by_category(pt)
    IN  [period |-> period,
         total_income |-> total_income,
         total_expenses |-> total_expenses,
         net_savings |-> total_income - total_expenses,
         expenses_by_category |-> by_category,
         budget_alerts |-> budget_alerts_from(user_data.budgets, by_category, 1, << >>),
         total_savings |-> user_data.total_savings]

----------------------------------------------------------------------------
(* view_transactions, view_savings_goals *)

\* seq[-limit:]
LastSlice(seq, limit) ==
    IF limit = 0 THEN seq
    ELSE SubSeq(seq, (IF Len(seq) > limit THEN Len(seq) - limit + 1 ELSE 1), Len(seq))

\* reversed(seq)
Reversed(seq) == [i \in 1..Len(seq) |-> seq[Len(seq) + 1 - i]]

\* view_transactions, lines 162-177: the transactions shown, most recent first;
\* the empty sequence stands for "No transactions found."
view_transactions(user_data, limit) == Reversed(LastSlice(user_data.transactions, limit))

\* line 189
progress(goal) ==
    IF goal.target_amount > 0
    THEN (goal.current_amount * 100) \div goal.target_amount
    ELSE 0

\* view_savings_goals, lines 182-198: the goals shown with their progress;
\* the empty sequence stands for "No savings goals set."
view_savings_goals(user_data) ==
    [i \in 1..Len(user_data.savings_goals) |->
        [goal |-> user_data.savings_goals[i],
         progress |-> progress(user_data.savings_goals[i])]]

----------------------------------------------------------------------------
(* context.user_data: per user, a dict of the pending dialogue entries *)

PendingKeys == {"pending_income", "pending_expense", "pending_budget", "pending_goal"}

NoPending == [k \in {} |-> 0]

NoSessions == [u \in UserIds |-> NoPending]

\* context.user_data[key] = value
SessionSet(s, key, value) ==
    [k \in DOMAIN s \cup {key} |-> IF k = key THEN value ELSE s[k]]

\* del context.user_data[key]
SessionDel(s, key) == [k \in DOMAIN s \ {key} |-> s[k]]

\* callback_data of the inline buttons
Callbacks ==
    [kind : {"income"}, category : IncomeCategories]
    \cup [kind : {"expense", "budget"}, category : ExpenseCategories]
    \cup [kind : {"add_goal", "update_goal", "update_id"}, category : {""}]

\* the outcome of a handler or engine call: what it returned or raised
\*   handler  the Telegram handler that ran ("api": the engine called directly)
\*   call     the engine operation it invoked ("": none)
\*   status   how it ended
\*   out      what the engine operation returned
Reply(handler, call, user_id, status, out) ==
    [handler |-> handler, call |-> call, user_id |-> user_id,
     status |-> status, out |-> out]

NoOut == << >>

----------------------------------------------------------------------------
(* The process *)

Init ==
    /\ disk \in InitialFiles
    /\ data = load_data(disk)
    /\ running = TRUE
    /\ now = FirstInstant
    /\ sessions = NoSessions
    /\ reply = Reply("main", "load_data", "", "loaded", NoOut)

\* tracker = TelegramBudgetTracker() of a newly started process (line 207)
StartProcess ==
    /\ ~running
    /\ running' = TRUE
    /\ data' = load_data(disk)
    /\ sessions' = NoSessions
    /\ reply' = Reply("main", "load_data", "", "loaded", NoOut)
    /\ UNCHANGED <<disk, now>>

\* the process ends between two updates (Ctrl-C, line 468): memory is gone
StopProcess ==
    /\ running
    /\ running' = FALSE
    /\ data' = NoData
    /\ sessions' = NoSessions
    /\ reply' = Reply("main", "", "", "stopped", NoOut)
    /\ UNCHANGED <<disk, now>>

\* datetime.now() moves on
Tick ==
    /\ \E t \in Instants :
        /\ t # now
        /\ DtLeq(now, t)
        /\ now' = t
    /\ UNCHANGED <<running, data, disk, sessions, reply>>

\* the process is killed inside save_data
Killed(handler, op, user_id) ==
    /\ running' = FALSE
    /\ data' = NoData
    /\ sessions' = NoSessions
    /\ reply' = Reply(handler, op, user_id, "killed", NoOut)

\* d['users'] raises KeyError in get_user_data: nothing has changed
RaisesKeyError(handler, op, user_id) ==
    /\ reply' = Reply(handler, op, user_id, "KeyError", NoOut)
    /\ UNCHANGED <<running, data, disk, now, sessions>>

----------------------------------------------------------------------------
(* The engine called directly *)

\* a mutating engine operation from the mutation d2 of the document on:
\* save_data, then the confirmation is returned (or the exception leaves)
SaveAndReturn(op, user_id, d2) ==
    \E outcome \in SaveOutcomes :
        /\ disk' = save_data(d2, disk, outcome)
        /\ IF outcome = "crash"
           THEN Killed("api", op, user_id)
           ELSE /\ data' = d2
                /\ reply' = Reply("api", op, user_id,
                                  IF outcome = "ok" THEN "confirm" ELSE "OSError", NoOut)
                /\ UNCHANGED <<running, sessions>>
        /\ UNCHANGED now

CategoriesOf(transaction_type) ==
    IF transaction_type = "income" THEN IncomeCategories ELSE ExpenseCategories

AddTransaction(user_id, amount, category, transaction_type) ==
    /\ running
    /\ IF ~data.has_users
       THEN RaisesKeyError("api", "add_transaction", user_id)
       ELSE /\ Len(Account(data, user_id).transactions) < MaxTx
            /\ SaveAndReturn("add_transaction", user_id,
                   add_transaction(data, user_id, amount, category,
                                   transaction_type, "", now))

SetBudget(user_id, category, amount) ==
    /\ running
    /\ IF ~data.has_users
       THEN RaisesKeyError("api", "set_budget", user_id)
       ELSE SaveAndReturn("set_budget", user_id,
                set_budget(data, user_id, category, amount, now))

AddSavingsGoal(user_id, name, target_amount, target_date) ==
    /\ running
    /\ IF ~data.has_users
       THEN RaisesKeyError("api", "add_savings_goal", user_id)
       ELSE /\ Len(Account(data, user_id).savings_goals) < MaxGoals
            /\ SaveAndReturn("add_savings_goal", user_id,
                   add_savings_goal(data, user_id, name, target_amount,
                                    target_date, now))

\* a reading engine operation: get_user_data, then the result is returned
ReadAndReturn(handler, op, user_id, out) ==
    IF ~data.has_users
    THEN RaisesKeyError(handler, op, user_id)
    ELSE /\ data' = get_user_data(data, user_id)
         /\ reply' = Reply(handler, op, user_id, "report", out)
         /\ UNCHANGED <<running, disk, now, sessions>>

GetFinancialSummary(user_id, period) ==
    /\ running
    /\ ReadAndReturn("api", "get_financial_summary", user_id,
            get_financial_summary(Account(data, user_id), period, now))

ViewTransactions(user_id, limit) ==
    /\ running
    /\ ReadAndReturn("api", "view_transactions", user_id,
            view_transactions(Account(data, user_id), limit))

ViewSavingsGoals(user_id) ==
    /\ running
    /\ ReadAndReturn("api", "view_savings_goals", user_id,
            view_savings_goals(Account(data, user_id)))

----------------------------------------------------------------------------
(* The Telegram handlers *)

\* /start, /help, /add_income, /add_expense, /set_budget: a text or a keyboard
\* is sent, nothing is stored
Commands == {"start", "help_command", "add_income", "add_expense", "set_budget"}

CommandHandler(user_id, command) ==
    /\ running
    /\ reply' = Reply(command, "", user_id, "prompt", NoOut)
    /\ UNCHANGED <<running, data, disk, now, sessions>>

\* show_summary, lines 293-318: the summary of the default period
ShowSummary(user_id) ==
    /\ running
    /\ ReadAndReturn("show_summary", "get_financial_summary", user_id,
            get_financial_summary(Account(data, user_id), "current_month", now))

\* show_transactions, lines 320-324: the default limit
ShowTransactions(user_id) ==
    /\ running
    /\ ReadAndReturn("show_transactions", "view_transactions", user_id,
            view_transactions(Account(data, user_id), 10))

\* show_goals, lines 326-337
ShowGoals(user_id) ==
    /\ running
    /\ ReadAndReturn("show_goals", "view_savings_goals", user_id,
            view_savings_goals(Account(data, user_id)))

\* the key a button sets in context.user_data, lines 347-364
PendingKeyOf(kind) ==
    IF kind = "income" THEN "pending_income"
    ELSE IF kind = "expense" THEN "pending_expense"
    ELSE IF kind = "budget" THEN "pending_budget"
    ELSE "pending_goal"

\* button_handler, lines 339-377
ButtonHandler(user_id, cb) ==
    /\ running
    /\ IF cb.kind \in {"income", "expense", "budget"}
       THEN /\ sessions' = [sessions EXCEPT ![user_id] =
                    SessionSet(@, PendingKeyOf(cb.kind), [category |-> cb.category])]
            /\ reply' = Reply("button_handler", "", user_id, "prompt", NoOut)
            /\ UNCHANGED <<running, data, disk, now>>
       ELSE IF cb.kind = "add_goal"
       THEN /\ sessions' = [sessions EXCEPT ![user_id] =
                    SessionSet(@, "pending_goal", [step |-> "name"])]
            /\ reply' = Reply("button_handler", "", user_id, "prompt", NoOut)
            /\ UNCHANGED <<running, data, disk, now>>
       ELSE IF cb.kind = "update_goal"
       THEN ReadAndReturn("button_handler", "get_user_data", user_id,
                [i \in 1..Len(Account(data, user_id).savings_goals) |->
                    Account(data, user_id).savings_goals[i].id])
       ELSE \* "update_<id>": no branch of the handler matches
            /\ reply' = Reply("button_handler", "", user_id, "ignored", NoOut)
            /\ UNCHANGED <<running, data, disk, now, sessions>>

\* handle_message after the input was accepted: the engine operation runs
\* inside the try; its confirmation is sent after the pending entry is deleted
\* (lines 389-391, 397-399, 405-407, 429-431); except Exception (line 435)
\* answers any exception of the engine with an error text
EngineCallStep(user_id, key, op, d2) ==
    IF ~data.has_users
    THEN /\ reply' = Reply("handle_message", op, user_id, "error", NoOut)
         /\ UNCHANGED <<running, data, disk, now, sessions>>
    ELSE \E outcome \in SaveOutcomes :
            /\ disk' = save_data(d2, disk, outcome)
            /\ IF outcome = "crash"
               THEN Killed("handle_message", op, user_id)
               ELSE /\ data' = d2
                    /\ IF outcome = "ok"
                       THEN /\ sessions' = [sessions EXCEPT ![user_id] =
                                                SessionDel(@, key)]
                            /\ reply' = Reply("handle_message", op, user_id,
                                              "confirm", NoOut)
                       ELSE /\ reply' = Reply("handle_message", op, user_id,
                                              "error", NoOut)
                            /\ UNCHANGED sessions
                    /\ UNCHANGED running
            /\ UNCHANGED now

\* the ValueError answer that also drops what the user had pending
InvalidNumber_DropsPending(user_id) ==
    /\ reply' = Reply("handle_message", "", user_id, "invalid_number", NoOut)
    /\ sessions' = [sessions EXCEPT ![user_id] = NoPending]
    /\ UNCHANGED <<running, data, disk, now>>

\* float(text) raised ValueError (line 433)
InvalidNumber(user_id) ==
    /\ reply' = Reply("handle_message", "", user_id, "invalid_number", NoOut)
    /\ UNCHANGED <<running, data, disk, now, sessions>>

\* the pending_goal branch, lines 410-431
GoalStep(user_id, text) ==
    LET goal == sessions[user_id]["pending_goal"]
    IN  IF goal.step = "name"
        THEN /\ sessions' = [sessions EXCEPT ![user_id]["pending_goal"] =
                                [step |-> "amount", name |-> text]]
             /\ reply' = Reply("handle_message", "", user_id, "prompt", NoOut)
             /\ UNCHANGED <<running, data, disk, now>>
        ELSE IF goal.step = "amount"
        THEN IF ~IsNumber(text)
             THEN InvalidNumber(user_id)
             ELSE /\ sessions' = [sessions EXCEPT ![user_id]["pending_goal"] =
                                    [step |-> "date", name |-> goal.name,
                                     target_amount |-> float(text)]]
                  /\ reply' = Reply("handle_message", "", user_id, "prompt", NoOut)
                  /\ UNCHANGED <<running, data, disk, now>>
        ELSE /\ Len(Account(data, user_id).savings_goals) < MaxGoals
             /\ EngineCallStep(user_id, "pending_goal", "add_savings_goal",
                    add_savings_goal(data, user_id, goal.name, goal.target_amount,
                                     text, now))

\* handle_message, lines 379-436
HandleMessage(user_id, text) ==
    /\ running
    /\ LET pending == sessions[user_id]
       IN  IF "pending_income" \in DOMAIN pending
           THEN IF ~IsNumber(text)
                THEN InvalidNumber(user_id)
                ELSE /\ Len(Account(data, user_id).transactions) < MaxTx
                     /\ EngineCallStep(user_id, "pending_income", "add_transaction",
                            add_transaction(data, user_id, float(text),
                                pending["pending_income"].category, "income", "", now))
           ELSE IF "pending_expense" \in DOMAIN pending
           THEN IF ~IsNumber(text)
                THEN InvalidNumber(user_id)
                ELSE /\ Len(Account(data, user_id).transactions) < MaxTx
                     /\ EngineCallStep(user_id, "pending_expense", "add_transaction",
                            add_transaction(data, user_id, float(text),
                                pending["pending_expense"].category, "expense", "", now))
           ELSE IF "pending_budget" \in DOMAIN pending
           THEN IF ~IsNumber(text)
                THEN InvalidNumber(user_id)
                ELSE EngineCallStep(user_id, "pending_budget", "set_budget",
                        set_budget(data, user_id,
                                   pending["pending_budget"].category,
                                   float(text), now))
           ELSE IF "pending_goal" \in DOMAIN pending
           THEN GoalStep(user_id, text)
           ELSE /\ reply' = Reply("handle_message", "", user_id, "ignored", NoOut)
                /\ UNCHANGED <<running, data, disk, now, sessions>>

----------------------------------------------------------------------------------------------------------------------------------------
(* The specifications *)

\* the mutating engine operations, called with arguments from the sets given
EngineWrites(users, amounts, categories, goals) ==
    \/ \E u \in users, ty \in TransactionTypes :
         \E c \in CategoriesOf(ty) \cap categories, a \in amounts :
            AddTransaction(u, a, c, ty)
    \/ \E u \in users, c \in ExpenseCategories \cap categories, a \in amounts :
         SetBudget(u, c, a)
    \/ \E u \in users, g \in goals :
         AddSavingsGoal(u, g.name, g.target_amount, g.target_date)

\* the reading engine operations, called with arguments from the sets given
EngineReads(users, periods, limits) ==
    \/ \E u \in users, p \in periods : GetFinancialSummary(u, p)
    \/ \E u \in users, l \in limits : ViewTransactions(u, l)
    \/ \E u \in users : ViewSavingsGoals(u)

\* a savings goal to add
CarGoal == [name |-> "Car", target_amount |-> 1, target_date |-> "2025-12-31"]

\* a handler that ended without an exception of save_data
Saved == reply'.status \notin {"error", "OSError", "killed"}

\* the Telegram handlers of a process whose file can be written, run on the
\* commands, on the buttons and on the texts given
Handlers(users, commands, callbacks, texts) ==
    \/ \E u \in users, c \in commands : CommandHandler(u, c)
    \/ \E u \in users : ShowSummary(u)
    \/ \E u \in users : ShowTransactions(u)
    \/ \E u \in users : ShowGoals(u)
    \/ \E u \in users, cb \in callbacks : ButtonHandler(u, cb)
    \/ \E u \in users, t \in texts : HandleMessage(u, t) /\ Saved

\* the engine and its file over the life of several processes: every outcome
\* of save_data, the process stopped and started again; one user records, every
\* user reads
Next ==
    \/ StartProcess
    \/ StopProcess
    \/ EngineWrites({"u1"}, {-1, 1}, {"Salary", "Food"}, {CarGoal})
    \/ EngineReads(UserIds, {"current_month"}, {10})

Spec == Init /\ [][Next]_vars

\* an engine call that returned: save_data wrote the file, nothing was raised
Returned == reply'.status \in {"confirm", "report"}

InitSound ==
    /\ Init
    /\ disk \in {MissingFile, JsonFile(initialize_data)}

\* the ledger of one process whose file can be written: every engine operation,
\* all categories
NextLedger ==
    \/ EngineWrites({"u1"}, {0, 1}, {"Salary", "Food", "Other"}, {CarGoal}) /\ Returned
    \/ EngineReads({"u1"}, Periods, Limits) /\ Returned

SpecLedger == InitSound /\ [][NextLedger]_vars

\* transactions recorded while the clock moves on, and the summaries of them
NextSummary ==
    \/ Tick
    \/ \E ty \in TransactionTypes :
         \E c \in CategoriesOf(ty), a \in Amounts :
            AddTransaction("u1", a, c, ty) /\ Returned
    \/ \E p \in Periods : GetFinancialSummary("u1", p)

SpecSummary == InitSound /\ [][NextSummary]_vars

\* the buttons of the dialogues given
ButtonsOf(kinds) == {cb \in Callbacks : cb.kind \in kinds /\ cb.category # "Other"}

\* the bot: the Telegram handlers of one process whose file can be written,
\* every dialogue
NextBot ==
    Handlers({"u1"}, {"start"},
             ButtonsOf({"income", "expense", "budget", "add_goal", "update_goal", "update_id"}),
             {"abc", "1"})

SpecBot == InitSound /\ [][NextBot]_vars

\* the income and the expense dialogue on every text
NextAmounts ==
    Handlers({"u1"}, {"add_income", "add_expense"}, ButtonsOf({"income", "expense"}), Texts)

SpecAmounts == InitSound /\ [][NextAmounts]_vars

\* the savings-goal dialogue, an income dialogue beside it, under every outcome
\* of save_data; a killed process is started again
NextGoal ==
    \/ StartProcess
    \/ \E cb \in ButtonsOf({"add_goal", "income"}) : ButtonHandler("u1", cb)
    \/ \E t \in {"abc", "1"} : HandleMessage("u1", t)

SpecGoal == InitSound /\ [][NextGoal]_vars

\* the moments at which the summaries of budgeted accounts are asked for: the
\* last day of a month at noon, and the first second of the next month
AlertInstants ==
    { [year |-> 2024, month |-> 12, day |-> 31, sec |-> 43200, usec |-> 5],
      [year |-> 2025, month |-> 1,  day |-> 1,  sec |-> 1,     usec |-> 0] }

\* budgets set on the first day, transactions recorded while the clock moves
\* on, and the summaries of them
NextAlerts ==
    \/ Tick /\ now' \in AlertInstants
    \/ \E c \in IncomeCategories :
         AddTransaction("u1", 1, c, "income") /\ Returned
    \/ \E c \in ExpenseCategories, a \in {0, 1} :
         AddTransaction("u1", a, c, "expense") /\ Returned
    \/ \E c \in ExpenseCategories, a \in Amounts :
         now = FirstInstant /\ SetBudget("u1", c, a) /\ Returned
    \/ \E p \in Periods : GetFinancialSummary("u1", p)

SpecAlerts == InitSound /\ [][NextAlerts]_vars

\* transactions of every amount recorded over the turn of the month, and the
\* summaries of them
NextBalance ==
    \/ Tick /\ now' \in AlertInstants
    \/ \E ty \in TransactionTypes :
         \E c \in CategoriesOf(ty), a \in Amounts :
            AddTransaction("u1", a, c, ty) /\ Returned
    \/ \E p \in Periods : GetFinancialSummary("u1", p)

SpecBalance == InitSound /\ [][NextBalance]_vars

----------------------------------------------------------------------------
(* Claims *)

Accounts(d) == {d.users[u] : u \in DOMAIN d.users}

\* sum of the income amounts minus sum of the expense amounts of a list
Balance(transactions) ==
    sum_amounts(transactions, "income") - sum_amounts(transactions, "expense")

\* C1: in every account, in memory and in the saved file, total_savings equals
\* the sum of the recorded income amounts minus the sum of the recorded expense
\* amounts, after every call of every engine operation.
C1_TotalSavingsIsBalance ==
    /\ \A acc \in Accounts(data) : acc.total_savings = Balance(acc.transactions)
    /\ \A acc \in Accounts(disk.value) : acc.total_savings = Balance(acc.transactions)

\* an account holding an income and an expense, its balance not zero
C1_Witness ==
    \E acc \in Accounts(data) :
        /\ \E i \in 1..Len(acc.transactions) : acc.transactions[i].type = "income"
        /\ \E i \in 1..Len(acc.transactions) :
                acc.transactions[i].type = "expense" /\ acc.transactions[i].amount # 0
        /\ acc.total_savings # 0
        /\ reply.call = "add_transaction"

\* C2: when save_data fails inside add_transaction, set_budget or
\* add_savings_goal, the document held by the engine after the call is the one
\* it held before the call.
C2_FailedSaveLeavesStateUnchanged ==
    [][reply'.status \in {"OSError", "error"} => data' = data]_vars

\* C3: once the file holds saved accounts, a call of save_data, also an
\* interrupted one, leaves it holding a complete document (the old or the new
\* one), never an empty or cut-off file, so that load_data still finds every
\* account that was saved.
C3_SaveIsAtomic ==
    [][DOMAIN disk.value.users # {} =>
            /\ disk'.kind = "json"
            /\ DOMAIN disk.value.users \subseteq DOMAIN load_data(disk').users]_vars

\* C4: when add_transaction, set_budget or add_savings_goal has returned its
\* confirmation, the file holds exactly the document the engine holds.
C4_ConfirmedIsDurable ==
    reply.status = "confirm" => disk = JsonFile(data)

\* a confirmed add_transaction whose transaction is in the file
C4_Witness ==
    /\ reply.status = "confirm"
    /\ reply.call = "add_transaction"
    /\ disk.kind = "json"
    /\ \E acc \in Accounts(disk.value) : Len(acc.transactions) = 2

\* C5: after load_data the engine holds a document with a users mapping, the
\* empty document when the file was missing or malformed (unparseable, or
\* parseable without a users mapping); no later engine operation fails to
\* find the users mapping.
C5_LoadSelfHeals ==
    /\ running => data.has_users
    /\ reply.status = "loaded" /\ (disk.kind # "json" \/ ~disk.value.has_users)
            => data = initialize_data
    /\ reply.status # "KeyError"

\* the ids of a list are 1, 2, ... in insertion order
IdsAreInsertionOrder(transactions) ==
    \A k \in 1..Len(transactions) : transactions[k].id = k

\* what is recorded in d for a user stays, in its place and unchanged, in e
TransactionsKept(d, e) ==
    \A u \in DOMAIN d.users :
        /\ u \in DOMAIN e.users
        /\ Len(e.users[u].transactions) >= Len(d.users[u].transactions)
        /\ \A k \in 1..Len(d.users[u].transactions) :
                e.users[u].transactions[k] = d.users[u].transactions[k]

\* C6: in every account the k-th transaction in insertion order has id k (so
\* the ids are unique positive integers), and a call of an engine operation
\* leaves every transaction already recorded in its place and unchanged.
C6_IdsAreInsertionOrder ==
    [][/\ \A acc \in Accounts(data') : IdsAreInsertionOrder(acc.transactions)
       /\ running' => TransactionsKept(data, data')]_vars

\* an account to which a second transaction was just added
C6_Witness ==
    /\ reply.call = "add_transaction"
    /\ reply.status \in {"confirm", "OSError"}
    /\ \E acc \in Accounts(data) :
            Len(acc.transactions) = 2 /\ acc.transactions[2].id = 2

ReadOperations == {"get_financial_summary", "view_transactions", "view_savings_goals"}

\* the summary of an account without transactions, budgets and goals
EmptySummary(out) ==
    /\ out.total_income = 0
    /\ out.total_expenses = 0
    /\ out.net_savings = 0
    /\ out.expenses_by_category = EmptyDict
    /\ out.budget_alerts = << >>
    /\ out.total_savings = 0

\* C7: an engine operation called for a user id that has no account raises no
\* error for the unknown id, and the account it works on is empty: the summary
\* of the current month is all zero and empty, the lists are empty.
C7_UnknownUserIsEmptyAccount ==
    [][\A u \in UserIds :
        running /\ ~KnownUser(data, u) /\ reply'.user_id = u /\ reply'.handler = "api"
        => /\ reply'.status # "KeyError"
           /\ reply'.call \in ReadOperations =>
                /\ reply'.status = "report"
                /\ data'.users[u] = NewAccount
                /\ reply'.call = "get_financial_summary" => EmptySummary(reply'.out)
                /\ reply'.call = "view_transactions" => reply'.out = << >>
                /\ reply'.call = "view_savings_goals" => reply'.out = << >>]_vars

\* C7 where the document has a users mapping
C7_UnknownUserWithUsersMapping ==
    [][\A u \in UserIds :
        running /\ data.has_users /\ ~KnownUser(data, u)
        /\ reply'.user_id = u /\ reply'.handler = "api"
        => /\ reply'.status # "KeyError"
           /\ reply'.call \in ReadOperations =>
                /\ reply'.status = "report"
                /\ data'.users[u] = NewAccount
                /\ reply'.call = "get_financial_summary" => EmptySummary(reply'.out)
                /\ reply'.call = "view_transactions" => reply'.out = << >>
                /\ reply'.call = "view_savings_goals" => reply'.out = << >>]_vars

BudgetsOf(d, u) == IF KnownUser(d, u) THEN d.users[u].budgets ELSE EmptyDict

\* C8: the budget table never holds two entries of one category; set_budget
\* (returning, or failing in save_data) leaves the category with the amount given, adds no entry for a category
\* already set, and leaves the entries of the other categories as they were;
\* no other operation of the running engine changes the table.
C8_OneBudgetPerCategory ==
    [][\A u \in UserIds :
        LET before == BudgetsOf(data, u)
            after == BudgetsOf(data', u)
        IN  running /\ running' =>
            /\ Cardinality(DictKeys(after)) = Len(after)
            /\ \A c \in ExpenseCategories, a \in Amounts :
                    /\ reply'.call = "set_budget"
                    /\ reply'.status \in {"confirm", "OSError"}
                    /\ SetBudget(u, c, a)
                    =>
                        /\ DictHas(after, c)
                        /\ DictGet(after, c, NewAccount).amount = a
                        /\ DictKeys(after) = DictKeys(before) \cup {c}
                        /\ \A c2 \in DictKeys(before) \ {c} :
                                DictGet(after, c2, NewAccount) = DictGet(before, c2, NewAccount)
            /\ reply'.call # "set_budget" => after = before]_vars

\* a budget table of two categories on which set_budget has just run
C8_Witness ==
    /\ reply.call = "set_budget"
    /\ reply.status = "confirm"
    /\ \E acc \in Accounts(data) :
            /\ Len(acc.budgets) = 2
            /\ acc.budgets[1].value.amount # acc.budgets[2].value.amount

InCalendarMonth(date, year, month) == date.year = year /\ date.month = month

\* the calendar month before the one of t
PreviousMonth(t) ==
    IF t.month = 1 THEN [year |-> t.year - 1, month |-> 12]
    ELSE [year |-> t.year, month |-> t.month - 1]

\* the summary of the period counts the transaction
Counted(acc, tr, period) ==
    \E j \in 1..Len(period_transactions(acc.transactions, period, now)) :
        period_transactions(acc.transactions, period, now)[j] = tr

Recorded(acc) == {acc.transactions[i] : i \in 1..Len(acc.transactions)}

\* C9: the summary of current_month counts every transaction dated in the
\* current calendar month and the summary of last_month every transaction
\* dated in the previous calendar month, whatever its day and time of day.
C9_WholeMonthCounted ==
    \A acc \in Accounts(data) : \A tr \in Recorded(acc) :
        /\ InCalendarMonth(tr.date, now.year, now.month)
                => Counted(acc, tr, "current_month")
        /\ InCalendarMonth(tr.date, PreviousMonth(now).year, PreviousMonth(now).month)
                => Counted(acc, tr, "last_month")

\* C9 for the transactions dated before the last day of their month
C9_CountedBeforeLastDay ==
    \A acc \in Accounts(data) : \A tr \in Recorded(acc) :
        tr.date.day < DaysInMonth(tr.date.year, tr.date.month) =>
            /\ InCalendarMonth(tr.date, now.year, now.month)
                    => Counted(acc, tr, "current_month")
            /\ InCalendarMonth(tr.date, PreviousMonth(now).year, PreviousMonth(now).month)
                    => Counted(acc, tr, "last_month")

WithinPeriod(date, period, t) ==
    IF period = "current_month" THEN InCalendarMonth(date, t.year, t.month)
    ELSE IF period = "last_month"
         THEN InCalendarMonth(date, PreviousMonth(t).year, PreviousMonth(t).month)
         ELSE TRUE

\* the transactions of the account of the type given, dated within the period
TransactionsWithin(acc, type, period, t) ==
    SelectSeq(acc.transactions,
              LAMBDA tr : tr.type = type /\ WithinPeriod(tr.date, period, t))

\* the expenses of the category dated within the period, and their sum
ExpensesWithin(acc, category, period, t) ==
    SelectSeq(TransactionsWithin(acc, "expense", period, t),
              LAMBDA tr : tr.category = category)

SpentWithin(acc, category, period, t) ==
    sum_amounts(ExpensesWithin(acc, category, period, t), "expense")

\* the entries of the budget table, in table order, whose category has spent
\* more than the budget, as alert records
AlertsDue(budgets, spent(_)) ==
    LET over == SelectSeq(budgets, LAMBDA e : spent(e.key) > e.value.amount)
    IN  [i \in 1..Len(over) |->
            [category |-> over[i].key,
             spent |-> spent(over[i].key),
             budget |-> over[i].value.amount]]

AlertedCategories(alerts) == {alerts[i].category : i \in 1..Len(alerts)}

\* C11: the summary holds an alert for a category if and only if the category
\* has a budget entry and the sum of its expenses dated within the requested
\* period is strictly greater than the budget amount; the alert carries that
\* sum and the budget; the alerts are in the order of the budget table; a
\* budgeted category without an expense in the period has no alert.
C11_AlertsIffOverBudget ==
    [][\A p \in Periods :
        GetFinancialSummary("u1", p) /\ reply'.status = "report" =>
            LET acc == Account(data, "u1")
                spent(c) == SpentWithin(acc, c, p, now)
            IN  /\ reply'.out.budget_alerts = AlertsDue(acc.budgets, spent)
                /\ \A c \in DictKeys(acc.budgets) :
                        ExpensesWithin(acc, c, p, now) = << >>
                            => c \notin AlertedCategories(reply'.out.budget_alerts)]_vars

\* C11 with the sums taken over the range the code filters by: the alerts are
\* the over-budget entries in table order; a budgeted category without an
\* expense in that range has no alert when its budget is not negative
C11_AlertsOfFilteredRange ==
    [][\A p \in Periods :
        GetFinancialSummary("u1", p) /\ reply'.status = "report" =>
            LET acc == Account(data, "u1")
                pt == period_transactions(acc.transactions, p, now)
                of(c) == SelectSeq(pt, LAMBDA tr : tr.type = "expense" /\ tr.category = c)
                spent(c) == sum_amounts(of(c), "expense")
            IN  /\ reply'.out.budget_alerts = AlertsDue(acc.budgets, spent)
                /\ \A c \in DictKeys(acc.budgets) :
                        of(c) = << >> /\ DictGet(acc.budgets, c, NewAccount).amount >= 0
                            => c \notin AlertedCategories(reply'.out.budget_alerts)]_vars

\* a summary with the alerts of two categories
C11_TwoAlerts ==
    /\ reply.call = "get_financial_summary"
    /\ reply.status = "report"
    /\ Len(reply.out.budget_alerts) = 2

\* the transactions of the account dated within the period
AllWithin(acc, period, t) ==
    SelectSeq(acc.transactions, LAMBDA tr : WithinPeriod(tr.date, period, t))

\* C12: the summary's total_income is the sum of the amounts of the income
\* transactions dated within the requested period, total_expenses the sum of
\* the amounts of the expense transactions within it, net_savings their
\* difference; when no transaction lies within the period all three are 0,
\* expenses_by_category is empty and there are no alerts.
C12_SummarySums ==
    [][\A p \in Periods :
        GetFinancialSummary("u1", p) /\ reply'.status = "report" =>
            LET acc == Account(data, "u1")
                out == reply'.out
            IN  /\ out.total_income =
                        sum_amounts(TransactionsWithin(acc, "income", p, now), "income")
                /\ out.total_expenses =
                        sum_amounts(TransactionsWithin(acc, "expense", p, now), "expense")
                /\ out.net_savings = out.total_income - out.total_expenses
                /\ AllWithin(acc, p, now) = << >> =>
                        /\ out.total_income = 0
                        /\ out.total_expenses = 0
                        /\ out.net_savings = 0
                        /\ out.expenses_by_category = EmptyDict
                        /\ out.budget_alerts = << >>]_vars

\* C12 with the sums taken over the range the code filters by, and without
\* alerts when no budget is negative
C12_SumsOfFilteredRange ==
    [][\A p \in Periods :
        GetFinancialSummary("u1", p) /\ reply'.status = "report" =>
            LET acc == Account(data, "u1")
                out == reply'.out
                pt == period_transactions(acc.transactions, p, now)
                of(type) == SelectSeq(pt, LAMBDA tr : tr.type = type)
            IN  /\ out.total_income = sum_amounts(of("income"), "income")
                /\ out.total_expenses = sum_amounts(of("expense"), "expense")
                /\ out.net_savings = out.total_income - out.total_expenses
                /\ pt = << >> =>
                        /\ out.total_income = 0
                        /\ out.total_expenses = 0
                        /\ out.net_savings = 0
                        /\ out.expenses_by_category = EmptyDict
                        /\ (\A i \in 1..Len(acc.budgets) : acc.budgets[i].value.amount >= 0)
                                => out.budget_alerts = << >>]_vars

\* the categories an expense can be recorded under
AllCategories == IncomeCategories \cup ExpenseCategories

\* C13: expenses_by_category of the summary maps each category to the sum of
\* its expense amounts dated within the requested period and has no entry for
\* a category whose sum is zero, such as one whose only expenses in the period
\* have amount 0.
C13_NoZeroCategories ==
    [][\A p \in Periods :
        GetFinancialSummary("u1", p) /\ reply'.status = "report" =>
            LET acc == Account(data, "u1")
                by_category == reply'.out.expenses_by_category
            IN  /\ Cardinality(DictKeys(by_category)) = Len(by_category)
                /\ DictKeys(by_category) =
                        {c \in AllCategories : SpentWithin(acc, c, p, now) # 0}
                /\ \A c \in DictKeys(by_category) :
                        DictGet(by_category, c, 0) = SpentWithin(acc, c, p, now)]_vars

\* C13 for the range the code filters by: one entry per category that has an
\* expense in the range, whatever its amount, holding the sum
C13_EntryPerExpenseCategory ==
    [][\A p \in Periods :
        GetFinancialSummary("u1", p) /\ reply'.status = "report" =>
            LET acc == Account(data, "u1")
                by_category == reply'.out.expenses_by_category
                pt == period_transactions(acc.transactions, p, now)
                of(c) == SelectSeq(pt, LAMBDA tr : tr.type = "expense" /\ tr.category = c)
            IN  /\ Cardinality(DictKeys(by_category)) = Len(by_category)
                /\ DictKeys(by_category) = {c \in AllCategories : of(c) # << >>}
                /\ \A c \in DictKeys(by_category) :
                        DictGet(by_category, c, 0) = sum_amounts(of(c), "expense")]_vars

Min(a, b) == IF a < b THEN a ELSE b

\* out is the last k of the transactions, the most recently recorded first
MostRecentFirst(out, transactions, k) ==
    /\ Len(out) = k
    /\ \A i \in 1..Len(out) : out[i] = transactions[Len(transactions) + 1 - i]

\* C14: for an account with n transactions and every limit >= 0, also 0 and
\* more than n, view_transactions reports exactly min(limit, n) transactions:
\* the most recently recorded ones, the most recent first; none when the
\* account has no transactions.
C14_LastLimitTransactions ==
    [][\A l \in Limits :
        ViewTransactions("u1", l) /\ reply'.status = "report" =>
            LET transactions == Account(data, "u1").transactions
            IN  MostRecentFirst(reply'.out, transactions, Min(l, Len(transactions)))]_vars

\* C14 for the limits greater than 0
C14_PositiveLimits ==
    [][\A l \in Limits \ {0} :
        ViewTransactions("u1", l) /\ reply'.status = "report" =>
            LET transactions == Account(data, "u1").transactions
            IN  MostRecentFirst(reply'.out, transactions, Min(l, Len(transactions)))]_vars

\* C15: every transaction stored in an account, in memory and in the saved
\* file, has a non-negative amount: a negative amount entered in the income or
\* the expense dialogue is not recorded.
C15_NoNegativeAmounts ==
    \A acc \in Accounts(data) \cup Accounts(disk.value) : \A tr \in Recorded(acc) :
        tr.amount >= 0

\* C15 for the texts that are not a negative number
C15_NonNegativeTextsRecorded ==
    [][\A t \in Texts :
        HandleMessage("u1", t) /\ (~IsNumber(t) \/ float(t) >= 0) =>
            \A acc \in Accounts(data') : \A tr \in Recorded(acc) :
                tr.amount < 0 => tr \in Recorded(Account(data, "u1"))]_vars

\* the dialogue of the user awaits an amount: of an income, an expense, a
\* budget, or the target amount of a goal
AwaitsAmount(pending) ==
    \/ "pending_income" \in DOMAIN pending
    \/ "pending_expense" \in DOMAIN pending
    \/ "pending_budget" \in DOMAIN pending
    \/ "pending_goal" \in DOMAIN pending /\ pending["pending_goal"].step = "amount"

HasGoal(s) == "pending_goal" \in DOMAIN s["u1"]
GoalOf(s) == s["u1"]["pending_goal"]
GoalsOf(d) == IF KnownUser(d, "u1") THEN d.users["u1"].savings_goals ELSE << >>

\* the step the goal dialogue is at ("none": no goal pending)
GoalStepOf(s) == IF HasGoal(s) THEN GoalOf(s).step ELSE "none"

\* C17: the goal dialogue advances only name -> amount -> date, one step per
\* accepted message (the add_goal button starts it at name); add_savings_goal
\* is called only at the date step, once, with the name and the target amount
\* collected at the two earlier steps, and the pending goal is then cleared.
C17_GoalDialogueOrder ==
    [][/\ GoalStepOf(sessions') # GoalStepOf(sessions) /\ running' =>
            \/ GoalStepOf(sessions') = "name" /\ reply'.handler = "button_handler"
            \/ /\ reply'.handler = "handle_message"
               /\ <<GoalStepOf(sessions), GoalStepOf(sessions')>> \in
                    {<<"name", "amount">>, <<"amount", "date">>, <<"date", "none">>}
       /\ \A t \in Texts :
            HandleMessage("u1", t) /\ DOMAIN sessions["u1"] = {"pending_goal"} =>
                /\ GoalStepOf(sessions) = "name" =>
                        /\ GoalStepOf(sessions') = "amount"
                        /\ GoalOf(sessions').name = t
                /\ GoalStepOf(sessions) = "amount" /\ IsNumber(t) =>
                        /\ GoalStepOf(sessions') = "date"
                        /\ GoalOf(sessions').name = GoalOf(sessions).name
                        /\ GoalOf(sessions').target_amount = float(t)
                /\ GoalStepOf(sessions) = "date" => reply'.call = "add_savings_goal"
       /\ reply'.call # "add_savings_goal" /\ running' => GoalsOf(data') = GoalsOf(data)
       /\ reply'.call = "add_savings_goal" =>
            /\ GoalStepOf(sessions) = "date"
            /\ GoalStepOf(sessions') = "none"
            /\ running' =>
                /\ Len(GoalsOf(data')) = Len(GoalsOf(data)) + 1
                /\ SubSeq(GoalsOf(data'), 1, Len(GoalsOf(data))) = GoalsOf(data)
                /\ GoalsOf(data')[Len(GoalsOf(data'))].name = GoalOf(sessions).name
                /\ GoalsOf(data')[Len(GoalsOf(data'))].target_amount =
                        GoalOf(sessions).target_amount]_vars

\* C18: in every session at most one action is pending (none, income, expense,
\* budget or goal): a button pressed while another action is pending does not
\* leave both pending.
C18_AtMostOnePending ==
    \A u \in UserIds : Cardinality(DOMAIN sessions[u] \cap PendingKeys) <= 1

\* the entry a text is applied to: the first of the chain of lines 386-410
AppliedTo(pending) ==
    IF "pending_income" \in DOMAIN pending THEN "pending_income"
    ELSE IF "pending_expense" \in DOMAIN pending THEN "pending_expense"
    ELSE IF "pending_budget" \in DOMAIN pending THEN "pending_budget"
    ELSE "pending_goal"

\* what holds of several pending entries: a confirmed text removes exactly the
\* entry first in the chain and leaves the others pending
C18_FirstOfChainConsumed ==
    [][\A t \in Texts :
        /\ HandleMessage("u1", t)
        /\ reply'.status = "confirm"
        => DOMAIN sessions'["u1"] = DOMAIN sessions["u1"] \ {AppliedTo(sessions["u1"])}]_vars

\* the document load_data would read from the file
Durable(f) == load_data(f)

\* C19: get_financial_summary, view_transactions and view_savings_goals leave
\* the document unchanged, for known and for never-seen user ids, and between
\* operations the document in memory equals the durable one: no account is in
\* memory that is not in the saved file.
C19_ReadsLeaveDocumentUnchanged ==
    [][reply'.call \in ReadOperations /\ reply'.status = "report" =>
            /\ data' = data
            /\ disk' = disk
            /\ DOMAIN data.users \subseteq DOMAIN Durable(disk).users
                    => DOMAIN data'.users \subseteq DOMAIN Durable(disk').users]_vars

\* what the read operations do leave unchanged: the file, and every account
\* the document holds
C19_ReadsKeepFileAndAccounts ==
    [][reply'.call \in ReadOperations =>
            /\ disk' = disk
            /\ \A u \in DOMAIN data.users :
                    u \in DOMAIN data'.users /\ data'.users[u] = data.users[u]
            /\ \A u \in DOMAIN data'.users \ DOMAIN data.users :
                    u = reply'.user_id /\ data'.users[u] = NewAccount]_vars

\* C20: the summary of all_time returns net_savings equal to the total_savings
\* of the same report; for every period the total_savings reported is the
\* running balance of the account over all its transactions.
C20_AllTimeNetIsTotalSavings ==
    [][\A p \in Periods :
        GetFinancialSummary("u1", p) /\ reply'.status = "report" =>
            LET acc == Account(data, "u1")
                out == reply'.out
            IN  /\ out.total_savings = acc.total_savings
                /\ out.total_savings = Balance(acc.transactions)
                /\ p = "all_time" => out.net_savings = out.total_savings]_vars

\* the all_time summary of an account with transactions of two months, an
\* income and an expense among them, its balance not zero
C20_Witness ==
    /\ reply.call = "get_financial_summary"
    /\ reply.status = "report"
    /\ reply.out.period = "all_time"
    /\ reply.out.net_savings # 0
    /\ reply.out.total_expenses # 0
    /\ reply.out.total_income # 0
    /\ \E acc \in Accounts(data) : \E tr1, tr2 \in Recorded(acc) :
            tr1.date.month # tr2.date.month

\* for a month the net_savings of the report differs from its total_savings
C20_MonthDiffers ==
    /\ reply.call = "get_financial_summary"
    /\ reply.status = "report"
    /\ reply.out.period = "current_month"
    /\ reply.out.net_savings # reply.out.total_savings

====
